---- MODULE Spec2Model ----
(***************************************************************************)
(* Lifecycle of one provider instance of automated-speedtest: the base     *)
(* Provider (constructor, wait primitives, cleanup) and the Speedtest      *)
(* provider (constructor, setup, dismiss_notification, run).               *)
(*                                                                         *)
(* The browser page is the environment: every lookup, wait, click and      *)
(* screenshot picks its outcome nondeterministically among the outcomes    *)
(* the Selenium calls of the source can produce.  driver.close() and       *)
(* driver.quit() are taken to return normally; sys.exit(n) ends the        *)
(* process with code n.                                                    *)
(***************************************************************************)
EXTENDS Integers, Sequences, FiniteSets

\* ------------------------------------------------------------------ bounds
\* number of run() calls the caller makes on the instance
MaxRuns == 2
\* number of direct cleanup() / wait-primitive calls the caller makes
MaxCalls == 2

\* ------------------------------------------------------------- input sets
\* classes a caller can construct: a minimal concrete subclass that only
\* inherits Provider.__init__, and Speedtest
Kinds == {"Provider", "Speedtest"}
\* caller-supplied screenshot filenames (the first is run's default)
Filenames == {"speedtest-result.png", "other.png"}
\* errno arguments handed to cleanup by a caller
Errnos == {-1, 0, 1, 2}
\* the three wait primitives of Provider
Primitives == {"wait_to_be_visible", "wait_for_element", "wait_for_button_clickable"}

\* exceptions of the source
ENI == "ElementNotInteractableException"
NSE == "NoSuchElementException"
ATTR == "AttributeError"
WDE == "WebDriverException"
\* every exception class above derives from Exception
ExceptionClasses == {ENI, NSE, ATTR, WDE}

VARIABLES
    ctorKind,     \* class whose constructor was called ("na" before)
    loadOk,       \* "na" | "ok" | "fail": outcome of browser.load_driver()
    ctorResult,   \* "na" | "ok" | "raised": outcome of the constructor
    inst,         \* "none" | "Provider" | "Speedtest": instance the caller holds
    driver,       \* self.driver: "unset" (no attribute) | "live" | "none" (None)
    proc,         \* "running" | "exited"
    exitCode,     \* code given to sys.exit (0 while running)
    pc,           \* "idle" or the position inside run
    code,         \* run's local variable code
    filename,     \* run's argument
    pending,      \* exception currently propagating inside run ("none")
    excSeen,      \* exception raised by a step of the current run ("none")
    excStep,      \* the step that raised it ("none")
    visible,      \* "na" | "yes" | "no": result of wait_to_be_visible in dismiss_notification
    trace,        \* events of the current run, in order
    files,        \* screenshot files on disk
    closeCount,   \* driver.close() calls on the instance's driver
    quitCount,    \* driver.quit() calls on the instance's driver
    lastOp,       \* last operation the caller invoked
    lastResult,   \* how it ended: "returned" | "raised" | "exit" | "pending" | "true" | "false"
    lastErrno,    \* argument of the most recent cleanup call
    cleanups,     \* cleanup calls on the instance so far (direct and from run)
    runs,         \* run() calls so far
    calls         \* direct calls so far

vars == <<ctorKind, loadOk, ctorResult, inst, driver, proc, exitCode, pc, code,
          filename, pending, excSeen, excStep, visible, trace, files,
          closeCount, quitCount, lastOp, lastResult, lastErrno, cleanups, runs, calls>>

runLocals == <<code, filename, pending, excSeen, excStep, visible, trace>>
ctorVars == <<ctorKind, loadOk, ctorResult, inst>>
procVars == <<proc, exitCode>>
relVars == <<closeCount, quitCount, cleanups>>

Range(s) == {s[i] : i \in 1..Len(s)}
Count(s, e) == Cardinality({i \in 1..Len(s) : s[i] = e})
\* position of the first occurrence of e in s, 0 when absent
Index(s, e) == IF e \in Range(s) THEN CHOOSE i \in 1..Len(s) : s[i] = e /\ \A j \in 1..(i-1) : s[j] # e ELSE 0

Init ==
    /\ ctorKind = "na" /\ loadOk = "na" /\ ctorResult = "na" /\ inst = "none"
    /\ driver = "unset"
    /\ proc = "running" /\ exitCode = 0
    /\ pc = "idle" /\ code = 0 /\ filename = "speedtest-result.png"
    /\ pending = "none" /\ excSeen = "none" /\ excStep = "none" /\ visible = "na"
    /\ trace = <<>> /\ files = {}
    /\ closeCount = 0 /\ quitCount = 0
    /\ lastOp = "none" /\ lastResult = "none" /\ lastErrno = 0
    /\ cleanups = 0 /\ runs = 0 /\ calls = 0

\* ------------------------------------------------------ Provider.__init__
\* self.driver after Provider.__init__: assigned only when load_driver returns
DriverAfterInit(ok) == IF ok THEN "live" ELSE "unset"

\* Speedtest.__init__ then evaluates self.driver.get(url): AttributeError when
\* the attribute was never assigned
SpeedtestInitRaises(d) == d = "unset"

\* Constructing an instance of class k with a browser whose load_driver
\* succeeds (ok) or raises.
Construct(k, ok) ==
    /\ proc = "running" /\ pc = "idle" /\ ctorResult = "na"
    /\ ctorKind' = k
    /\ loadOk' = IF ok THEN "ok" ELSE "fail"
    /\ driver' = DriverAfterInit(ok)
    /\ IF k = "Speedtest" /\ SpeedtestInitRaises(DriverAfterInit(ok))
         THEN /\ ctorResult' = "raised"
              /\ inst' = "none"
         ELSE /\ ctorResult' = "ok"
              /\ inst' = k
    /\ lastOp' = "construct"
    /\ lastResult' = IF k = "Speedtest" /\ SpeedtestInitRaises(DriverAfterInit(ok))
                       THEN "raised" ELSE "returned"
    /\ UNCHANGED <<procVars, pc, runLocals, files, relVars, lastErrno, runs, calls>>

\* --------------------------------------------------------- Provider.cleanup
\* `if self.driver:` raises AttributeError when the attribute does not exist
CleanupRaises(d) == d = "unset"

\* the guarded block runs close(), quit() and clears the handle
Releases(d) == d = "live"

DriverAfterCleanupKeep(d) == d
DriverAfterCleanup(d) == IF Releases(d) THEN "none" ELSE d

\* `if errno: sys.exit(errno)`, reached only when the first statement did not raise
CleanupExits(d, errno) == ~CleanupRaises(d) /\ errno # 0

ExitStatus(errno) == errno

\* effect of cleanup(errno) on the instance and on the process
cleanup(errno) ==
    /\ driver' = DriverAfterCleanup(driver)
    /\ closeCount' = closeCount + (IF Releases(driver) THEN 1 ELSE 0)
    /\ quitCount' = quitCount + (IF Releases(driver) THEN 1 ELSE 0)
    /\ lastErrno' = errno
    /\ cleanups' = cleanups + 1
    /\ IF CleanupExits(driver, errno)
         THEN proc' = "exited" /\ exitCode' = ExitStatus(errno)
         ELSE UNCHANGED procVars

\* how a cleanup(errno) call ends for its caller
CleanupOutcome(d, errno) ==
    IF CleanupRaises(d) THEN "raised"
    ELSE IF CleanupExits(d, errno) THEN "exit" ELSE "returned"

\* the caller calls cleanup(errno) on the instance it holds
CallCleanup(errno) ==
    /\ proc = "running" /\ pc = "idle" /\ inst # "none"
    /\ calls < MaxCalls
    /\ calls' = calls + 1
    /\ cleanup(errno)
    /\ lastOp' = "cleanup"
    /\ lastResult' = CleanupOutcome(driver, errno)
    /\ UNCHANGED <<ctorVars, pc, runLocals, files, runs>>

\* ------------------------------------------------- Provider wait primitives
\* wait_to_be_visible catches every exception (the AttributeError of an unset
\* handle included) and returns a boolean
VisibleOutcomes(d) == IF d = "unset" THEN {"false"} ELSE {"true", "false"}

\* wait_for_element / wait_for_button_clickable: the element, or
\* NoSuchElementException raised from the TimeoutException; without a live
\* driver the lookup itself fails with AttributeError, which is not translated
LocateOutcomes(d) == IF d = "live" THEN {"found", NSE} ELSE {ATTR}

WaitOutcomes(prim, d) == IF prim = "wait_to_be_visible" THEN VisibleOutcomes(d) ELSE LocateOutcomes(d)

\* the caller calls a wait primitive directly; no primitive assigns self.driver
CallWait(prim) ==
    /\ proc = "running" /\ pc = "idle" /\ inst # "none"
    /\ calls < MaxCalls
    /\ calls' = calls + 1
    /\ \E o \in WaitOutcomes(prim, driver) :
         lastResult' = (IF o \in ExceptionClasses THEN "raised"
                        ELSE IF o = "found" THEN "returned" ELSE o)
    /\ lastOp' = prim
    /\ UNCHANGED <<ctorVars, driver, procVars, pc, runLocals, files, relVars, lastErrno, runs>>

\* ------------------------------------------------------------ Speedtest.run
\* an exception leaves the try body for the except clauses
Raise(e, step) ==
    /\ pending' = e
    /\ excSeen' = e
    /\ excStep' = step
    /\ pc' = "except"

NoRaise == UNCHANGED <<pending, excSeen, excStep>>

\* run(filename): code = 0, enter the try block
RunBegin(f) ==
    /\ proc = "running" /\ pc = "idle" /\ inst = "Speedtest"
    /\ runs < MaxRuns
    /\ runs' = runs + 1
    /\ filename' = f
    /\ code' = 0
    /\ pending' = "none" /\ excSeen' = "none" /\ excStep' = "none" /\ visible' = "na"
    /\ trace' = <<>>
    /\ pc' = "setup"
    /\ lastOp' = "run" /\ lastResult' = "pending"
    /\ UNCHANGED <<ctorVars, driver, procVars, files, relVars, lastErrno, calls>>

\* outcomes of setup(): the reject control is absent (NoSuchElementException,
\* swallowed), is clicked, or the click raises; self.driver.find_element on a
\* released handle (None) raises AttributeError, which setup does not catch
SetupOutcomes(d) == IF d = "live" THEN {"absent", "clicked", ENI, WDE} ELSE {ATTR}

RunSetup ==
    /\ proc = "running" /\ pc = "setup"
    /\ \E o \in SetupOutcomes(driver) :
         /\ trace' = Append(trace, IF o = "clicked" THEN "consent_click" ELSE "setup")
         /\ IF o \in ExceptionClasses
              THEN Raise(o, "setup")
              ELSE NoRaise /\ pc' = "dismiss_find"
    /\ UNCHANGED <<ctorVars, driver, procVars, code, filename, visible, files, relVars,
                   lastOp, lastResult, lastErrno, runs, calls>>

\* dismiss_notification, find_element: absent is NoSuchElementException,
\* swallowed by the method, which then returns
RunDismissFind ==
    /\ proc = "running" /\ pc = "dismiss_find"
    /\ \E o \in {"absent", "found", WDE} :
         /\ trace' = Append(trace, IF o = "found" THEN "dismiss_found"
                                   ELSE IF o = "absent" THEN "dismiss_absent" ELSE "dismiss_failed")
         /\ IF o = WDE
              THEN Raise(o, "dismiss")
              ELSE NoRaise /\ pc' = (IF o = "found" THEN "dismiss_wait" ELSE "start_wait")
    /\ UNCHANGED <<ctorVars, driver, procVars, code, filename, visible, files, relVars,
                   lastOp, lastResult, lastErrno, runs, calls>>

\* dismiss_notification, self.wait_to_be_visible(dismiss_btn): the boolean it
\* returns is dropped
RunDismissWait ==
    /\ proc = "running" /\ pc = "dismiss_wait"
    /\ \E o \in VisibleOutcomes(driver) :
         /\ visible' = (IF o = "true" THEN "yes" ELSE "no")
         /\ trace' = Append(trace, IF o = "true" THEN "dismiss_visible" ELSE "dismiss_timeout")
    /\ pc' = "dismiss_click"
    /\ UNCHANGED <<ctorVars, driver, procVars, code, filename, pending, excSeen, excStep,
                   files, relVars, lastOp, lastResult, lastErrno, runs, calls>>

\* `if dismiss_btn:` tests the element object, which is always truthy
ClicksDismiss(v) == TRUE

\* dismiss_notification, dismiss_btn.click()
RunDismissClick ==
    /\ proc = "running" /\ pc = "dismiss_click"
    /\ IF ClicksDismiss(visible)
         THEN \E o \in {"clicked", ENI} :
                IF o = ENI
                  THEN /\ trace' = Append(trace, "dismiss_click_failed")
                       /\ Raise(o, "dismiss")
                  ELSE /\ trace' = Append(trace, "dismiss_click")
                       /\ NoRaise /\ pc' = "start_wait"
         ELSE /\ trace' = trace
              /\ NoRaise /\ pc' = "start_wait"
    /\ UNCHANGED <<ctorVars, driver, procVars, code, filename, visible, files, relVars,
                   lastOp, lastResult, lastErrno, runs, calls>>

\* start_test_btn = self.wait_for_button_clickable(...)
RunStartWait ==
    /\ proc = "running" /\ pc = "start_wait"
    /\ \E o \in LocateOutcomes(driver) :
         IF o = "found"
           THEN /\ trace' = Append(trace, "start_clickable")
                /\ NoRaise /\ pc' = "start_click"
           ELSE /\ trace' = Append(trace, "start_timeout")
                /\ Raise(o, "start_wait")
    /\ UNCHANGED <<ctorVars, driver, procVars, code, filename, visible, files, relVars,
                   lastOp, lastResult, lastErrno, runs, calls>>

\* start_test_btn.click()
RunStartClick ==
    /\ proc = "running" /\ pc = "start_click"
    /\ \E o \in {"clicked", ENI, WDE} :
         IF o = "clicked"
           THEN /\ trace' = Append(trace, "start_click")
                /\ NoRaise /\ pc' = "result_wait"
           ELSE /\ trace' = Append(trace, "start_click_failed")
                /\ Raise(o, "start_click")
    /\ UNCHANGED <<ctorVars, driver, procVars, code, filename, visible, files, relVars,
                   lastOp, lastResult, lastErrno, runs, calls>>

\* results = self.wait_for_element(...)
RunResultWait ==
    /\ proc = "running" /\ pc = "result_wait"
    /\ \E o \in LocateOutcomes(driver) :
         IF o = "found"
           THEN /\ trace' = Append(trace, "results_visible")
                /\ NoRaise /\ pc' = "screenshot"
           ELSE /\ trace' = Append(trace, "results_timeout")
                /\ Raise(o, "result_wait")
    /\ UNCHANGED <<ctorVars, driver, procVars, code, filename, visible, files, relVars,
                   lastOp, lastResult, lastErrno, runs, calls>>

\* the file results.screenshot(f) writes
ScreenshotTargetDefault(f) == "speedtest-result.png"
ScreenshotTarget(f) == f

\* `if results: results.screenshot(filename)`; the element is truthy
RunScreenshot ==
    /\ proc = "running" /\ pc = "screenshot"
    /\ \E o \in {"written", WDE} :
         IF o = "written"
           THEN /\ files' = files \cup {ScreenshotTarget(filename)}
                /\ trace' = Append(trace, "screenshot")
                /\ NoRaise /\ pc' = "finally"
           ELSE /\ files' = files
                /\ trace' = Append(trace, "screenshot_failed")
                /\ Raise(o, "screenshot")
    /\ UNCHANGED <<ctorVars, driver, procVars, code, filename, visible, relVars,
                   lastOp, lastResult, lastErrno, runs, calls>>

\* the except clauses: ElementNotInteractableException, then Exception
HandledOnlyNotInteractable(e) == e = ENI
Handled(e) == e = ENI \/ e \in ExceptionClasses

\* both clauses set code = -1
ExceptCodeKeepsZero(e) == IF e = ENI THEN -1 ELSE 0
ExceptCode(e) == -1

RunExcept ==
    /\ proc = "running" /\ pc = "except"
    /\ IF Handled(pending)
         THEN code' = ExceptCode(pending) /\ pending' = "none"
         ELSE UNCHANGED <<code, pending>>
    /\ trace' = Append(trace, "handler")
    /\ pc' = "finally"
    /\ UNCHANGED <<ctorVars, driver, procVars, filename, excSeen, excStep, visible, files,
                   relVars, lastOp, lastResult, lastErrno, runs, calls>>

\* the argument the finally block hands to cleanup
FinallyArg(c) == c

\* how run ends for its caller: the process exits in cleanup, an exception
\* raised by cleanup or left unhandled propagates, or run returns
RunOutcome(d, c, p) ==
    IF CleanupOutcome(d, c) # "returned" THEN CleanupOutcome(d, c)
    ELSE IF p # "none" THEN "raised" ELSE "returned"

\* cleanup(code) as the last statement of the try body instead of a finally block
RunFinallyOnlyOnSuccess ==
    /\ proc = "running" /\ pc = "finally"
    /\ IF excSeen = "none"
         THEN /\ cleanup(FinallyArg(code))
              /\ trace' = Append(trace, "cleanup")
              /\ lastResult' = RunOutcome(driver, FinallyArg(code), pending)
         ELSE /\ lastResult' = "returned"
              /\ UNCHANGED <<driver, procVars, relVars, lastErrno, trace>>
    /\ pc' = "idle"
    /\ UNCHANGED <<ctorVars, code, filename, pending, excSeen, excStep, visible, files,
                   lastOp, runs, calls>>

\* finally: self.cleanup(code)
RunFinally ==
    /\ proc = "running" /\ pc = "finally"
    /\ cleanup(FinallyArg(code))
    /\ trace' = Append(trace, "cleanup")
    /\ lastResult' = RunOutcome(driver, FinallyArg(code), pending)
    /\ pc' = "idle"
    /\ UNCHANGED <<ctorVars, code, filename, pending, excSeen, excStep, visible, files,
                   lastOp, runs, calls>>

Next ==
    \/ \E k \in Kinds, ok \in BOOLEAN : Construct(k, ok)
    \/ \E e \in Errnos : CallCleanup(e)
    \/ \E p \in Primitives : CallWait(p)
    \/ \E f \in Filenames : RunBegin(f)
    \/ RunSetup
    \/ RunDismissFind
    \/ RunDismissWait
    \/ RunDismissClick
    \/ RunStartWait
    \/ RunStartClick
    \/ RunResultWait
    \/ RunScreenshot
    \/ RunExcept
    \/ RunFinally

Spec == Init /\ [][Next]_vars

\* ------------------------------------------------------------------ claims
\* run has returned, exited the process or let an exception out, and the
\* caller has invoked nothing since
RunDone == lastOp = "run" /\ pc = "idle"

\* C1: in every execution of run, whatever the path, cleanup(code) is invoked
\* exactly once and it is the last thing run does: no event of the run follows
\* the cleanup event, and a finished run holds exactly one, called with code.
C1_CleanupOnceLast ==
    lastOp = "run" =>
        /\ Count(trace, "cleanup") <= 1
        /\ "cleanup" \in Range(trace) => (trace[Len(trace)] = "cleanup" /\ pc = "idle")
        /\ pc = "idle" => (Count(trace, "cleanup") = 1 /\ lastErrno = code)

\* C1 witness: a run that took the not-interactable path has finished
C1_Witness == RunDone /\ excSeen = ENI /\ Count(trace, "cleanup") = 1

C3_CleanupIdempotent ==
    (lastOp = "cleanup" /\ cleanups >= 2) =>
        (lastResult # "raised" /\ closeCount <= 1 /\ quitCount <= 1)

\* C4 (as claimed): cleanup(errno) with errno nonzero ends the process with
\* exactly errno, the driver released; cleanup(0) releases the driver and
\* returns with the process still running.
C4_CleanupExit ==
    lastOp = "cleanup" =>
        /\ driver # "live"
        /\ IF lastErrno # 0
             THEN proc = "exited" /\ exitCode = lastErrno /\ lastResult = "exit"
             ELSE proc = "running" /\ lastResult = "returned"

C6_FailedLoadNoCrash ==
    loadOk = "fail" => (ctorResult = "ok" /\ driver = "unset")

C9_Lifecycle ==
    /\ [](driver = "live" => (ctorResult = "ok" /\ loadOk = "ok"))
    /\ [](lastOp = "cleanup" => driver = "none")
    /\ [][driver = "none" => driver' = "none"]_vars

\* C10 (as claimed): the dismiss control is clicked only when the visibility
\* wait saw it visible, and when the control is absent the next step of run
\* is the wait for the start control.
C10_DismissAfterVisible ==
    /\ "dismiss_click" \in Range(trace) => visible = "yes"
    /\ \A i \in 1..(Len(trace) - 1) :
         trace[i] = "dismiss_absent" => trace[i + 1] \in {"start_clickable", "start_timeout"}

====
